---------------------------- MODULE Spec2Model ----------------------------
(***************************************************************************)
(* Model of index.js: the record-to-GeoJSON converter                      *)
(* (convertAssociativeArrayToGeoJSON), the dirty-data check                *)
(* (verifyCleanData), fetchAndCacheData and the batch driver.              *)
(*                                                                         *)
(* JavaScript strings are sequences of one-character strings, so that      *)
(* startsWith, includes, replace and parseFloat are computed character by  *)
(* character.  JavaScript values are tagged records.  A finite number is   *)
(* the exact decimal m * 10^(-e), normalised; -0 is identified with 0, as  *)
(* === does.                                                               *)
(***************************************************************************)
EXTENDS Integers, Sequences, FiniteSets, TLC

VARIABLES
    \* convertAssociativeArrayToGeoJSON: arguments and result
    dataArray, latKey, lngKey, layer_name, propertiesToInclude, geojson,
    \* verifyCleanData: argument, file content read, and result
    filename, data, warning,
    \* the process: position of the main program, the files under the cache
    \* directory, the content of debug-log.txt, the loop index, the errors
    \* array, the exit status
    pc, cacheDirExists, files, log, index, errors, exitCode,
    \* history: the calls of fetchAndCacheData and verifyCleanData made so
    \* far, and how many responses may still differ from an ordinary one
    calls, oddLeft

convVars == <<dataArray, latKey, lngKey, layer_name, propertiesToInclude, geojson>>
verVars == <<filename, data, warning>>
runVars == <<pc, cacheDirExists, files, log, index, errors, exitCode, calls, oddLeft>>

(***************************************************************************)
(* JavaScript values                                                       *)
(***************************************************************************)
Undefined == [t |-> "undefined"]
Null == [t |-> "null"]
NaN == [t |-> "NaN"]
NotCalled == [t |-> "not called"]

Bool(b) == [t |-> "boolean", b |-> b]

Str(s) == [t |-> "string", s |-> s]

RECURSIVE Pow10(_)
Pow10(e) == IF e = 0 THEN 1 ELSE 10 * Pow10(e - 1)

\* the number m * 10^(-e), with trailing fractional zeros removed
RECURSIVE Num(_, _)
Num(m, e) ==
    IF e > 0 /\ m % 10 = 0 THEN Num(m \div 10, e - 1)
    ELSE [t |-> "number", m |-> m, e |-> e]

IsNumber(v) == v.t = "number"

(***************************************************************************)
(* Strings as character sequences                                          *)
(***************************************************************************)
DigitChars == <<"0", "1", "2", "3", "4", "5", "6", "7", "8", "9">>

IsDigit(c) == \E d \in 1..10 : DigitChars[d] = c

DigitVal(c) == (CHOOSE d \in 1..10 : DigitChars[d] = c) - 1

\* String.prototype.startsWith
startsWith(s, prefix) ==
    /\ Len(s) >= Len(prefix)
    /\ SubSeq(s, 1, Len(prefix)) = prefix

\* String.prototype.includes
includes(s, part) ==
    \E i \in 1..(Len(s) - Len(part) + 1) : SubSeq(s, i, i + Len(part) - 1) = part

\* decimal digits of a natural number
RECURSIVE NatToString(_)
NatToString(n) ==
    IF n < 10 THEN <<DigitChars[n + 1]>>
    ELSE NatToString(n \div 10) \o <<DigitChars[(n % 10) + 1]>>

\* the e fractional digits of f, zero-padded on the left
RECURSIVE FracToString(_, _)
FracToString(f, e) ==
    IF e = 0 THEN <<>>
    ELSE FracToString(f \div 10, e - 1) \o <<DigitChars[(f % 10) + 1]>>

\* Number::toString for a finite number printed in plain decimal notation
NumberToString(v) ==
    LET abs == IF v.m < 0 THEN -v.m ELSE v.m
        int == abs \div Pow10(v.e)
        frac == abs % Pow10(v.e)
    IN  (IF v.m < 0 THEN <<"-">> ELSE <<>>)
        \o NatToString(int)
        \o (IF v.e = 0 THEN <<>> ELSE <<".">> \o FracToString(frac, v.e))

\* ToString, as parseFloat applies it to its argument
JSToString(v) ==
    CASE v.t = "string" -> v.s
      [] v.t = "number" -> NumberToString(v)
      [] v.t = "NaN" -> <<"N", "a", "N">>
      [] v.t = "boolean" -> IF v.b THEN <<"t", "r", "u", "e">>
                            ELSE <<"f", "a", "l", "s", "e">>
      [] v.t = "null" -> <<"n", "u", "l", "l">>
      [] v.t = "undefined" -> <<"u", "n", "d", "e", "f", "i", "n", "e", "d">>

RECURSIVE TrimStart(_)
TrimStart(s) ==
    IF s # <<>> /\ Head(s) = " " THEN TrimStart(Tail(s)) ELSE s

\* length of the longest prefix of s made of digits
RECURSIVE DigitPrefixLen(_)
DigitPrefixLen(s) ==
    IF s # <<>> /\ IsDigit(Head(s)) THEN 1 + DigitPrefixLen(Tail(s)) ELSE 0

RECURSIVE DigitsToNat(_)
DigitsToNat(ds) ==
    IF ds = <<>> THEN 0
    ELSE 10 * DigitsToNat(SubSeq(ds, 1, Len(ds) - 1)) + DigitVal(ds[Len(ds)])

\* the value of the longest prefix of s that is a decimal literal
\* ([+-] digits [. digits] or [+-] . digits), NaN when there is none
ParseDecimalPrefix(s) ==
    LET trimmed == TrimStart(s)
        signed == trimmed # <<>> /\ Head(trimmed) \in {"-", "+"}
        sign == IF signed /\ Head(trimmed) = "-" THEN -1 ELSE 1
        body == IF signed THEN Tail(trimmed) ELSE trimmed
        nInt == DigitPrefixLen(body)
        rest == SubSeq(body, nInt + 1, Len(body))
        hasDot == rest # <<>> /\ Head(rest) = "."
        nFrac == IF hasDot THEN DigitPrefixLen(Tail(rest)) ELSE 0
        intPart == DigitsToNat(SubSeq(body, 1, nInt))
        fracPart == DigitsToNat(SubSeq(rest, 2, 1 + nFrac))
    IN  IF nInt = 0 /\ nFrac = 0 THEN NaN
        ELSE Num(sign * (intPart * Pow10(nFrac) + fracPart), nFrac)

\* the global parseFloat
parseFloat(v) == ParseDecimalPrefix(JSToString(v))

(***************************************************************************)
(* Objects: a record (CSV row) is a function from its own field names to   *)
(* values.                                                                 *)
(***************************************************************************)
hasOwnProperty(item, key) == key \in DOMAIN item

\* item[key]
Get(item, key) == IF key \in DOMAIN item THEN item[key] ELSE Undefined

(***************************************************************************)
(* convertAssociativeArrayToGeoJSON                                        *)
(***************************************************************************)
\* a variant that applies the exclusion rule to the included names too
IncludedPropertiesExcluding(item, include) ==
    [key \in {k \in {include[i] : i \in DOMAIN include} \cap DOMAIN item :
                ~startsWith(k, <<"-">>)} |-> item[key]]

\* the properties object built for one item from the include list
IncludedProperties(item, include) ==
    [key \in {include[i] : i \in DOMAIN include} \cap DOMAIN item |-> item[key]]

\* a variant that forgets the '-' test
AllButCoordinatesKeepDash(item, lat, lng) ==
    [key \in {k \in DOMAIN item : k # lat /\ k # lng} |-> item[key]]

\* the properties object built for one item when nothing is included
AllButCoordinates(item, lat, lng) ==
    [key \in {k \in DOMAIN item : k # lat /\ k # lng /\ ~startsWith(k, <<"-">>)}
        |-> item[key]]

BuildProperties(item, lat, lng, include) ==
    IF Len(include) > 0 THEN IncludedProperties(item, include)
    ELSE AllButCoordinates(item, lat, lng)

\* a variant that emits the coordinates in reading order
BuildFeatureLatFirst(item, lat, lng, include) ==
    [type |-> "Feature",
     geometry |-> [type |-> "Point",
                   coordinates |-> <<parseFloat(Get(item, lat)), parseFloat(Get(item, lng))>>],
     properties |-> BuildProperties(item, lat, lng, include)]

\* the callback of dataArray.map
BuildFeature(item, lat, lng, include) ==
    LET latitude == parseFloat(Get(item, lat))
        longitude == parseFloat(Get(item, lng))
    IN  [type |-> "Feature",
         geometry |-> [type |-> "Point", coordinates |-> <<longitude, latitude>>],
         properties |-> BuildProperties(item, lat, lng, include)]

\* Array.prototype.filter(feature => feature !== null)
FilterNotNull(features) == SelectSeq(features, LAMBDA f : f # Null)

CRS84 == <<"urn:ogc:def:crs:OGC:1.3:CRS84">>

\* a variant whose filter drops the features without usable coordinates
convertDroppingInvalid(array, lat, lng, name, include) ==
    LET mapped == [i \in DOMAIN array |-> BuildFeature(array[i], lat, lng, include)]
    IN  [type |-> "FeatureCollection",
         name |-> name,
         crs |-> [type |-> "name", properties |-> [name |-> CRS84]],
         features |-> SelectSeq(mapped,
                        LAMBDA f : NaN \notin {f.geometry.coordinates[1],
                                               f.geometry.coordinates[2]})]

convertAssociativeArrayToGeoJSON(array, lat, lng, name, include) ==
    LET mapped == [i \in DOMAIN array |-> BuildFeature(array[i], lat, lng, include)]
    IN  [type |-> "FeatureCollection",
         name |-> name,
         crs |-> [type |-> "name", properties |-> [name |-> CRS84]],
         features |-> FilterNotNull(mapped)]

\* the main program is not running
RunIdle ==
    /\ pc = "idle"
    /\ cacheDirExists = FALSE
    /\ files = <<>>
    /\ log = <<>>
    /\ index = 0
    /\ errors = <<>>
    /\ exitCode = "running"
    /\ calls = <<>>
    /\ oddLeft = 0

(***************************************************************************)
(* Inputs of the converter                                                 *)
(***************************************************************************)
MaxStrLen == 2
MaxInclude == 2
MaxRecords == 2

Latitude == <<"L", "a", "t", "i", "t", "u", "d", "e">>
Longitude == <<"L", "o", "n", "g", "i", "t", "u", "d", "e">>
NameKey == <<"N", "a", "m", "e">>
DashKey == <<"-", "i", "d">>
EmptyKey == <<>>

RECURSIVE SeqsUpTo(_, _)
SeqsUpTo(S, n) ==
    IF n = 0 THEN {<<>>}
    ELSE LET shorter == SeqsUpTo(S, n - 1)
         IN  shorter \cup {Append(s, c) : s \in shorter, c \in S}

TextAlphabet == {"1", "0", ".", "-", " ", "a"}

\* 0, 20.5, 85.8, and two values outside [-90, 90] and [-180, 180]
SampleNumbers == {Num(0, 0), Num(205, 1), Num(858, 1), Num(-200, 0), Num(1000, 0)}

\* what a cell holds after type inference, or Undefined for a missing field
CellValues ==
    SampleNumbers
    \cup {Str(s) : s \in SeqsUpTo(TextAlphabet, MaxStrLen)}
    \cup {Bool(TRUE), Bool(FALSE), Null, Undefined}

PlainCells == {Num(205, 1), Undefined}

\* the record with the given cells; a field whose cell is Undefined is missing
MakeRecord(cells) == [k \in {f \in DOMAIN cells : cells[f] # Undefined} |-> cells[k]]

\* records with one arbitrary coordinate cell, all other fields present
CoordRecords ==
    {MakeRecord((Latitude :> la) @@ (Longitude :> lo) @@ (NameKey :> Str(<<"a">>))
                @@ (DashKey :> Num(1, 0)) @@ (EmptyKey :> Null)) :
        <<la, lo>> \in (CellValues \X PlainCells) \cup (PlainCells \X CellValues)}

\* records with any subset of the fields
FieldRecords ==
    {MakeRecord((Latitude :> la) @@ (Longitude :> lo) @@ (NameKey :> n)
                @@ (DashKey :> d) @@ (EmptyKey :> e)) :
        la \in PlainCells, lo \in PlainCells, n \in {Str(<<"a">>), Undefined},
        d \in {Num(1, 0), Undefined}, e \in {Null, Undefined}}

ArrayRecords ==
    {MakeRecord((Latitude :> la) @@ (Longitude :> Num(858, 1)) @@ (NameKey :> n)) :
        la \in {Num(205, 1), Str(<<"a">>), Undefined}, n \in {Str(<<"a">>), Undefined}}

DataArrays ==
    {<<r>> : r \in CoordRecords \cup FieldRecords} \cup SeqsUpTo(ArrayRecords, MaxRecords)

IncludeLists == SeqsUpTo({Latitude, NameKey, DashKey}, MaxInclude)

InitConvert ==
    /\ dataArray \in DataArrays
    /\ latKey = Latitude
    /\ lngKey = Longitude
    /\ layer_name \in {<<"t", "e", "s", "t">>}
    /\ propertiesToInclude \in IncludeLists
    /\ geojson = NotCalled
    /\ filename = <<>>
    /\ data = <<>>
    /\ warning = NotCalled
    /\ RunIdle

CallConvert ==
    /\ geojson = NotCalled
    /\ geojson' = convertAssociativeArrayToGeoJSON(dataArray, latKey, lngKey,
                                                    layer_name, propertiesToInclude)
    /\ UNCHANGED <<dataArray, latKey, lngKey, layer_name, propertiesToInclude>>
    /\ UNCHANGED <<verVars, runVars>>

vars == <<convVars, verVars, runVars>>

SpecConvert == InitConvert /\ [][CallConvert]_vars

(***************************************************************************)
(* Properties of convertAssociativeArrayToGeoJSON                          *)
(***************************************************************************)
Converted == geojson # NotCalled

IsDashName(k) == Len(k) > 0 /\ k[1] = "-"

IncludeSet == {propertiesToInclude[j] : j \in DOMAIN propertiesToInclude}

\* C1: a record whose latitude field holds a number L and whose longitude
\* field holds a number G yields a Point whose coordinates are exactly
\* <<G, L>>, whatever the magnitude of G and L.
C1_CoordinateOrder ==
    Converted =>
        \A i \in DOMAIN dataArray :
            LET item == dataArray[i]
            IN  (/\ latKey \in DOMAIN item /\ IsNumber(item[latKey])
                 /\ lngKey \in DOMAIN item /\ IsNumber(item[lngKey]))
                => /\ i \in DOMAIN geojson.features
                   /\ geojson.features[i].geometry.type = "Point"
                   /\ geojson.features[i].geometry.coordinates
                        = <<item[lngKey], item[latKey]>>

\* a latitude of 1000 (outside [-90, 90]) and a longitude of 20.5 come out
\* as <<20.5, 1000>>
C1_Witness ==
    /\ Converted
    /\ \E i \in DOMAIN dataArray :
        /\ Get(dataArray[i], latKey) = Num(1000, 0)
        /\ Get(dataArray[i], lngKey) = Num(205, 1)
        /\ geojson.features[i].geometry.coordinates = <<Num(205, 1), Num(1000, 0)>>

C3_IncludePrecedence ==
    (Converted /\ Len(propertiesToInclude) > 0) =>
        \A i \in DOMAIN dataArray :
            LET item == dataArray[i]
                props == geojson.features[i].properties
            IN  /\ DOMAIN props = IncludeSet \cap DOMAIN item
                /\ \A k \in DOMAIN props : props[k] = item[k]

\* the include list <<Latitude, '-id'>> on a record that has Latitude,
\* Longitude, Name and '-id' yields the Latitude and '-id' properties
C3_Witness ==
    /\ Converted
    /\ propertiesToInclude = <<Latitude, DashKey>>
    /\ \E i \in DOMAIN dataArray :
        /\ DOMAIN dataArray[i] = {Latitude, Longitude, NameKey, DashKey}
        /\ DOMAIN geojson.features[i].properties = {Latitude, DashKey}

RECURSIVE TrimEnd(_)
TrimEnd(s) ==
    IF s # <<>> /\ s[Len(s)] = " " THEN TrimEnd(SubSeq(s, 1, Len(s) - 1)) ELSE s

IsNumericText(s) ==
    LET body == TrimEnd(TrimStart(s))
        unsigned == IF body # <<>> /\ Head(body) \in {"-", "+"} THEN Tail(body) ELSE body
        nInt == DigitPrefixLen(unsigned)
        rest == SubSeq(unsigned, nInt + 1, Len(unsigned))
        nFrac == IF rest # <<>> /\ Head(rest) = "." THEN DigitPrefixLen(Tail(rest)) ELSE 0
    IN  /\ nInt + nFrac > 0
        /\ \/ rest = <<>>
           \/ Head(rest) = "." /\ Len(rest) = 1 + nFrac

NonNumeric(v) ==
    \/ v.t \in {"undefined", "null", "boolean"}
    \/ v.t = "string" /\ ~IsNumericText(v.s)

\* C10: a record whose latitude or longitude field is missing or holds a
\* non-numeric value (null, a boolean, text that is not a number) still
\* yields its feature, and the coordinate taken from that field is NaN.
C10_NonNumericIsNaN ==
    Converted =>
        \A i \in DOMAIN dataArray :
            /\ i \in DOMAIN geojson.features
            /\ NonNumeric(Get(dataArray[i], latKey))
                => geojson.features[i].geometry.coordinates[2] = NaN
            /\ NonNumeric(Get(dataArray[i], lngKey))
                => geojson.features[i].geometry.coordinates[1] = NaN

(***************************************************************************)
(* verifyCleanData                                                         *)
(***************************************************************************)
RefMarker == <<"#", "R", "E", "F", "!">>
LoadingMarker == <<"L", "o", "a", "d", "i", "n", "g">>

\* a template literal: its fixed text and the file name interpolated in it
Warning(text, fname) == [t |-> "warning", text |-> text, filename |-> fname]

\* a variant that tests the markers in the other order
verifyCleanDataLoadingFirst(fname, content) ==
    IF includes(content, LoadingMarker) THEN Warning("Loading... found in ", fname)
    ELSE IF includes(content, RefMarker) THEN Warning("#REF! found in ", fname)
    ELSE Undefined

\* content is what fs.readFileSync(fname, 'utf8') returns
verifyCleanData(fname, content) ==
    IF includes(content, RefMarker) THEN Warning("#REF! found in ", fname)
    ELSE IF includes(content, LoadingMarker) THEN Warning("Loading... found in ", fname)
    ELSE Undefined

MaxFragments == 2

\* pieces of file content: the markers, near misses of them, and other text
Fragments ==
    {RefMarker, LoadingMarker, <<"#", "R", "E", "F">>, <<"R", "E", "F", "!">>, <<"L", "o", "a", "d">>, <<"i", "n", "g">>, <<"l", "o", "a", "d", "i", "n", "g">>, <<"#", "r", "e", "f", "!">>, <<"x", ",", "1", "\n">>}

RECURSIVE Concat(_)
Concat(ss) == IF ss = <<>> THEN <<>> ELSE Head(ss) \o Concat(Tail(ss))

Texts == {Concat(fs) : fs \in SeqsUpTo(Fragments, MaxFragments)}

FileNames == {<<"d", "a", "t", "a", "/", "A", ".", "c", "s", "v">>, <<"d", "a", "t", "a", "/", "B", "-", "C", ".", "c", "s", "v">>}

InitVerify ==
    /\ filename \in FileNames
    /\ data \in Texts
    /\ warning = NotCalled
    /\ dataArray = <<>>
    /\ latKey = Latitude
    /\ lngKey = Longitude
    /\ layer_name = <<>>
    /\ propertiesToInclude = <<>>
    /\ geojson = NotCalled
    /\ RunIdle

CallVerify ==
    /\ warning = NotCalled
    /\ warning' = verifyCleanData(filename, data)
    /\ UNCHANGED <<filename, data>>
    /\ UNCHANGED <<convVars, runVars>>

SpecVerify == InitVerify /\ [][CallVerify]_vars

Verified == warning # NotCalled

Contains(text, marker) ==
    \E i \in 0..Len(text) : \E j \in i..Len(text) : SubSeq(text, i + 1, j) = marker

\* C5: the result is the '#REF!' warning for every text that contains
\* '#REF!', the 'Loading' warning exactly for the texts that contain
\* 'Loading' and not '#REF!', and no warning exactly for the texts that
\* contain neither.
C5_VerifyPriority ==
    Verified =>
        /\ Contains(data, RefMarker) => warning = Warning("#REF! found in ", filename)
        /\ warning = Warning("Loading... found in ", filename)
            <=> (Contains(data, LoadingMarker) /\ ~Contains(data, RefMarker))
        /\ warning = Undefined
            <=> (~Contains(data, LoadingMarker) /\ ~Contains(data, RefMarker))

\* a text with 'Loading' before '#REF!' gets the '#REF!' warning
C5_Witness ==
    /\ Verified
    /\ data = LoadingMarker \o RefMarker
    /\ warning = Warning("#REF! found in ", filename)

(***************************************************************************)
(* The process: cache directory, debug log, fetchAndCacheData, the batch   *)
(* driver.  The model is of the file executed directly (the main program). *)
(* Time stamps are left out of the log entries; console output repeats the *)
(* log file and is not modelled separately.                                *)
(***************************************************************************)
CACHE_DIRECTORY == <<"d", "a", "t", "a", "/">>

\* the entry debugLog appends: a template literal is its fixed text and
\* the value interpolated in it
LogEntry(text, arg, extra) == [text |-> text, arg |-> arg, data |-> extra]

debugLog(lg, text, arg, extra) == Append(lg, LogEntry(text, arg, extra))

UpperCase == <<"A", "B", "C", "D", "E", "F", "G", "H", "I", "J", "K", "L", "M", "N", "O", "P", "Q", "R", "S", "T", "U", "V", "W", "X", "Y", "Z">>
LowerCase == <<"a", "b", "c", "d", "e", "f", "g", "h", "i", "j", "k", "l", "m", "n", "o", "p", "q", "r", "s", "t", "u", "v", "w", "x", "y", "z">>

toLowerCase(s) ==
    [i \in DOMAIN s |->
        IF \E j \in DOMAIN UpperCase : UpperCase[j] = s[i]
        THEN LowerCase[CHOOSE j \in DOMAIN UpperCase : UpperCase[j] = s[i]]
        ELSE s[i]]

IsWhitespace(c) == c \in {" ", "\t", "\n"}

\* s.replace(/\s/g, '-')
ReplaceAllWhitespace(s) == [i \in DOMAIN s |-> IF IsWhitespace(s[i]) THEN "-" ELSE s[i]]

\* s.replace(' ', '-'): the first space only
ReplaceFirstSpace(s) ==
    IF \E i \in DOMAIN s : s[i] = " "
    THEN LET first == CHOOSE i \in DOMAIN s : s[i] = " " /\ \A j \in 1..(i - 1) : s[j] # " "
         IN  [i \in DOMAIN s |-> IF i = first THEN "-" ELSE s[i]]
    ELSE s

\* the three artifact paths of fetchAndCacheData
CsvArtifact(dataset) ==
    CACHE_DIRECTORY \o ReplaceAllWhitespace(dataset) \o <<".", "c", "s", "v">>

GeoJsonArtifact(dataset) ==
    CACHE_DIRECTORY \o ReplaceAllWhitespace(dataset)
        \o <<".", "g", "e", "o", "j", "s", "o", "n">>

MinGeoJsonArtifact(dataset) ==
    CACHE_DIRECTORY \o ReplaceAllWhitespace(dataset)
        \o <<".", "m", "i", "n", ".", "g", "e", "o", "j", "s", "o", "n">>

\* a variant that replaces the first space only
VerifyTargetFirstSpace(dataset) ==
    CACHE_DIRECTORY \o ReplaceFirstSpace(dataset) \o <<".", "c", "s", "v">>

\* the path the driver hands to verifyCleanData
VerifyTarget(dataset) ==
    CACHE_DIRECTORY \o ReplaceAllWhitespace(dataset) \o <<".", "c", "s", "v">>

\* JSON.stringify(value, null, indent): the document and its indentation
JSONStringify(value, indent) == [json |-> value, indent |-> indent]

\* response bodies
CleanCsv == <<"L", "a", "t", "i", "t", "u", "d", "e", ",", "L", "o", "n", "g", "i", "t", "u", "d", "e", "\n", "2", "0", ".", "5", ",", "8", "5", ".", "8">>
RefCsv == <<"L", "a", "t", "i", "t", "u", "d", "e", ",", "L", "o", "n", "g", "i", "t", "u", "d", "e", "\n", "#", "R", "E", "F", "!", ",", "8", "5", ".", "8">>
LoadingCsv == <<"L", "o", "a", "d", "i", "n", "g", ".", ".", ".">>
ErrorPage == <<"<", "h", "1", ">", "4", "0", "4", "<", "/", "h", "1", ">">>
StaleCsv == <<"s", "t", "a", "l", "e">>

\* Papa.parse(csv, { header: true, dynamicTyping: true }).data, tabulated
\* for the bodies above
PapaParseData(csv) ==
    CASE csv = CleanCsv -> <<(Latitude :> Num(205, 1)) @@ (Longitude :> Num(858, 1))>>
      [] csv = RefCsv ->
            <<(Latitude :> Str(RefMarker)) @@ (Longitude :> Num(858, 1))>>
      [] OTHER -> <<>>

\* what fetch resolves to: any HTTP status resolves
Response(status, body) == [status |-> status, body |-> body]

OrdinaryResponse == Response(200, CleanCsv)

OddResponses ==
    {Response(404, ErrorPage), Response(200, RefCsv), Response(200, LoadingCsv)}

\* how a call of fetchAndCacheData ends: fetch rejects, the k-th
\* writeFileSync throws, or it returns
Outcomes == {"NetworkError", "FileSystemError 1", "FileSystemError 2",
             "FileSystemError 3", "returned"}

WritesDone(outcome) ==
    CASE outcome = "NetworkError" -> 0
      [] outcome = "FileSystemError 1" -> 0
      [] outcome = "FileSystemError 2" -> 1
      [] outcome = "FileSystemError 3" -> 2
      [] outcome = "returned" -> 3

\* the writes of fetchAndCacheData, in order, as <<path, content>>
ArtifactWrites(dataset, csv) ==
    LET array == PapaParseData(csv)
        doc == convertAssociativeArrayToGeoJSON(array, Latitude, Longitude,
                    ReplaceFirstSpace(toLowerCase(dataset)), <<>>)
    IN  <<<<CsvArtifact(dataset), csv>>,
          <<GeoJsonArtifact(dataset), JSONStringify(doc, 2)>>,
          <<MinGeoJsonArtifact(dataset), JSONStringify(doc, 0)>>>>

\* fs.writeFileSync for the first n of the writes ws
RECURSIVE WriteFiles(_, _, _)
WriteFiles(fs, ws, n) ==
    IF n = 0 THEN fs
    ELSE LET before == WriteFiles(fs, ws, n - 1)
         IN  [q \in DOMAIN before \cup {ws[n][1]} |->
                IF q = ws[n][1] THEN ws[n][2] ELSE before[q]]

\* the files after fetchAndCacheData(dataset, url) ended with outcome
fetchAndCacheData(fs, dataset, response, outcome) ==
    WriteFiles(fs, ArtifactWrites(dataset, response.body), WritesDone(outcome))

\* the object literal, entry by entry as the source lists it:
\* <<tab identifier, display name>>
DataSetsListed ==
    <<
        <<0,
          <<"F", "i", "r", "e", " ", "S", "t", "a", "t", "i", "o", "n", "s">>>>,
        <<867350358,
          <<"P", "o", "l", "i", "c", "e", " ", "S", "t", "a", "t", "i", "o", "n", "s">>>>,
        <<396287298,
          <<"C", "i", "v", "i", "l", " ", "S", "u", "p", "p", "l", "i", "e", "s", " ", "G", "o", "d", "o", "w", "n", "s">>>>,
        <<2107086279,
          <<"A", "m", "b", "u", "l", "a", "n", "c", "e", "s">>>>,
        <<410764449,
          <<"A", "p", "a", "d", "a", " ", "M", "i", "t", "r", "a", "s">>>>,
        <<973534772,
          <<"A", "p", "a", "d", "a", " ", "S", "a", "k", "h", "i", "s">>>>,
        <<1309860234,
          <<"C", "y", "c", "l", "o", "n", "e", " ", "S", "h", "e", "l", "t", "e", "r", "s">>>>,
        <<36114476,
          <<"D", "a", "m", " ", "L", "e", "v", "e", "l", "s">>>>,
        <<302060060,
          <<"F", "i", "r", "e", " ", "A", "p", "p", "l", "i", "a", "n", "c", "e", "s">>>>,
        <<392979524,
          <<"H", "e", "a", "v", "y", " ", "M", "a", "c", "h", "i", "n", "e", "r", "y">>>>,
        <<495904604,
          <<"H", "o", "s", "p", "i", "t", "a", "l", "s">>>>,
        <<236724982,
          <<"M", "H", "A", " ", "U", "n", "i", "t", "s">>>>,
        <<1768104908,
          <<"M", "u", "t", "u", "a", "l", " ", "A", "i", "d", " ", "A", "g", "e", "n", "c", "i", "e", "s">>>>,
        <<443003227,
          <<"P", "a", "n", "c", "h", "a", "y", "a", "t", "s">>>>,
        <<1689409318,
          <<"R", "i", "v", "e", "r", " ", "G", "a", "u", "g", "e", "s">>>>,
        <<1786282296,
          <<"S", "c", "h", "o", "o", "l", "s">>>>,
        <<1929576986,
          <<"T", "r", "e", "e", " ", "C", "u", "t", "t", "e", "r", "s">>>>,
        <<920360157,
          <<"W", "a", "t", "e", "r", " ", "R", "e", "s", "o", "u", "r", "c", "e", "s">>>>,
        <<0,
          <<"C", "a", "p", "a", "c", "i", "t", "y", " ", "B", "u", "i", "l", "d", "i", "n", "g">>>>,
        <<0,
          <<"H", "i", "g", "h", " ", "D", "e", "n", "s", "i", "t", "y", " ", "S", "p", "a", "c", "e", "s">>>>,
        <<0,
          <<"B", "o", "a", "t", "s">>>>
    >>

\* the object the literal evaluates to: for a repeated key the last value
dataSets ==
    [key \in {DataSetsListed[n][1] : n \in DOMAIN DataSetsListed} |->
        LET last == CHOOSE n \in DOMAIN DataSetsListed :
                        /\ DataSetsListed[n][1] = key
                        /\ \A m \in DOMAIN DataSetsListed :
                                DataSetsListed[m][1] = key => m <= n
        IN  DataSetsListed[last][2]]

\* Object.keys of an object whose keys are all array indices: ascending
RECURSIVE Ascending(_)
Ascending(S) ==
    IF S = {} THEN <<>>
    ELSE LET least == CHOOSE x \in S : \A y \in S : x <= y
         IN  <<least>> \o Ascending(S \ {least})

ObjectKeys(obj) == Ascending(DOMAIN obj)

Keys == ObjectKeys(dataSets)

MaxOdd == 1

\* history records
FetchCall(dataset, key, response, outcome) ==
    [fn |-> "fetchAndCacheData",
     dataset |-> dataset,
     url |-> [base |-> "GOOGLESHEETURL", gid |-> key],
     status |-> IF outcome = "NetworkError" THEN 0 ELSE response.status,
     body |-> IF outcome = "NetworkError" THEN <<>> ELSE response.body,
     outcome |-> outcome,
     wrote |-> [n \in 1..WritesDone(outcome) |->
                    ArtifactWrites(dataset, response.body)[n][1]]]

VerifyCall(fname, exists, content) ==
    [fn |-> "verifyCleanData",
     filename |-> fname,
     outcome |-> IF exists THEN "returned" ELSE "FileSystemError",
     data |-> content]

\* the responses the remote may give to the next request
NextResponses == {OrdinaryResponse} \cup (IF oddLeft > 0 THEN OddResponses ELSE {})

StaleFiles ==
    [q \in {CsvArtifact(dataSets[k]) : k \in DOMAIN dataSets} |-> StaleCsv]

Init ==
    /\ pc = "start"
    /\ \/ cacheDirExists = FALSE /\ files = <<>> /\ log = <<>>
       \/ /\ cacheDirExists = TRUE
          /\ files \in {<<>>, StaleFiles}
          /\ log = <<LogEntry("File Checking finished", <<>>, Null)>>
    /\ index = 0
    /\ errors = <<>>
    /\ exitCode = "running"
    /\ calls = <<>>
    /\ oddLeft = MaxOdd
    /\ dataArray = <<>>
    /\ latKey = Latitude
    /\ lngKey = Longitude
    /\ layer_name = <<>>
    /\ propertiesToInclude = <<>>
    /\ geojson = NotCalled
    /\ filename = <<>>
    /\ data = <<>>
    /\ warning = NotCalled

\* module top level: make the cache directory, truncate the log, log
Startup ==
    /\ pc = "start"
    /\ cacheDirExists' = TRUE
    /\ log' = debugLog(<<>>, "Debug logging initialized", <<>>, Null)
    /\ index' = 1
    /\ pc' = "caching"
    /\ UNCHANGED <<files, errors, exitCode, calls, oddLeft, convVars, verVars>>

\* one iteration of the first loop in which fetchAndCacheData returns
FetchAndCacheReturns ==
    /\ pc = "caching"
    /\ index <= Len(Keys)
    /\ \E response \in NextResponses :
        LET key == Keys[index]
            dataset == dataSets[key]
        IN  /\ files' = fetchAndCacheData(files, dataset, response, "returned")
            /\ calls' = Append(calls, FetchCall(dataset, key, response, "returned"))
            /\ log' = debugLog(log, "Finished generating ", dataset, Null)
            /\ oddLeft' = IF response = OrdinaryResponse THEN oddLeft ELSE oddLeft - 1
    /\ index' = index + 1
    /\ UNCHANGED <<pc, cacheDirExists, errors, exitCode, convVars, verVars>>

\* a variant that isolates the failure and goes on with the next dataset
FetchAndCacheThrowsAndContinues ==
    /\ pc = "caching"
    /\ index <= Len(Keys)
    /\ \E outcome \in Outcomes \ {"returned"} :
       \E response \in IF outcome = "NetworkError" THEN {OrdinaryResponse}
                        ELSE NextResponses :
        LET key == Keys[index]
            dataset == dataSets[key]
        IN  /\ files' = fetchAndCacheData(files, dataset, response, outcome)
            /\ calls' = Append(calls, FetchCall(dataset, key, response, outcome))
            /\ log' = debugLog(log, "ERROR: ", outcome, "error.stack")
            /\ oddLeft' = IF response = OrdinaryResponse THEN oddLeft ELSE oddLeft - 1
    /\ index' = index + 1
    /\ UNCHANGED <<pc, cacheDirExists, errors, exitCode, convVars, verVars>>

\* one iteration of the first loop in which fetchAndCacheData throws: the
\* catch block logs the error and exits with status 1
FetchAndCacheThrows ==
    /\ pc = "caching"
    /\ index <= Len(Keys)
    /\ \E outcome \in Outcomes \ {"returned"} :
       \E response \in IF outcome = "NetworkError" THEN {OrdinaryResponse}
                        ELSE NextResponses :
        LET key == Keys[index]
            dataset == dataSets[key]
        IN  /\ files' = fetchAndCacheData(files, dataset, response, outcome)
            /\ calls' = Append(calls, FetchCall(dataset, key, response, outcome))
            /\ log' = debugLog(log, "ERROR: ", outcome, "error.stack")
            /\ oddLeft' = IF response = OrdinaryResponse THEN oddLeft ELSE oddLeft - 1
    /\ exitCode' = "1"
    /\ pc' = "exited"
    /\ UNCHANGED <<cacheDirExists, index, errors, convVars, verVars>>

\* after the first loop
FinishCaching ==
    /\ pc = "caching"
    /\ index > Len(Keys)
    /\ log' = debugLog(log, "File Caching finished", <<>>, Null)
    /\ errors' = <<>>
    /\ index' = 1
    /\ pc' = "checking"
    /\ UNCHANGED <<cacheDirExists, files, exitCode, calls, oddLeft, convVars, verVars>>

\* one iteration of the second loop; readFileSync throws when the file is
\* not there, and the catch block then logs the error and exits
VerifyStep ==
    /\ pc = "checking"
    /\ index <= Len(Keys)
    /\ LET dataset == dataSets[Keys[index]]
           target == VerifyTarget(dataset)
       IN  IF target \in DOMAIN files
           THEN /\ errors' = Append(errors, verifyCleanData(target, files[target]))
                /\ calls' = Append(calls, VerifyCall(target, TRUE, files[target]))
                /\ log' = debugLog(log, "Finished checking ", dataset, Null)
                /\ index' = index + 1
                /\ UNCHANGED <<pc, exitCode>>
           ELSE /\ calls' = Append(calls, VerifyCall(target, FALSE, <<>>))
                /\ log' = debugLog(log, "ERROR: ", "ENOENT", "error.stack")
                /\ exitCode' = "1"
                /\ pc' = "exited"
                /\ UNCHANGED <<errors, index>>
    /\ UNCHANGED <<cacheDirExists, files, oddLeft, convVars, verVars>>

\* after the second loop; the process then ends with status 0
FinishChecking ==
    /\ pc = "checking"
    /\ index > Len(Keys)
    /\ log' = debugLog(log, "File Checking finished", <<>>, Null)
    /\ exitCode' = "0"
    /\ pc' = "done"
    /\ UNCHANGED <<cacheDirExists, files, index, errors, calls, oddLeft, convVars, verVars>>

Next ==
    \/ Startup
    \/ FetchAndCacheReturns
    \/ FetchAndCacheThrows
    \/ FinishCaching
    \/ VerifyStep
    \/ FinishChecking

Spec == Init /\ [][Next]_vars

(***************************************************************************)
(* Properties of the batch driver                                          *)
(***************************************************************************)
FetchCalls == SelectSeq(calls, LAMBDA c : c.fn = "fetchAndCacheData")

VerifyCalls == SelectSeq(calls, LAMBDA c : c.fn = "verifyCleanData")

FetchThrew == \E n \in DOMAIN calls :
    calls[n].fn = "fetchAndCacheData" /\ calls[n].outcome # "returned"

Logged(text) == \E n \in DOMAIN log : log[n].text = text

\* the artifacts of the datasets before position n of the first loop
EarlierArtifacts(n) ==
    UNION {{CsvArtifact(dataSets[Keys[m]]), GeoJsonArtifact(dataSets[Keys[m]]),
            MinGeoJsonArtifact(dataSets[Keys[m]])} : m \in 1..(n - 1)}

\* C6: once fetchAndCacheData has thrown in the first loop, the throwing
\* call is the last call ever made (no later fetchAndCacheData, no
\* verifyCleanData), the error is the last log entry, the exit status is 1
\* and the process takes no further step; the step that throws leaves the
\* artifacts of the earlier datasets as they were.
C6_AbortOnError ==
    /\ [](FetchThrew =>
            /\ pc = "exited"
            /\ exitCode = "1"
            /\ calls[Len(calls)].outcome # "returned"
            /\ \A n \in 1..(Len(calls) - 1) :
                    calls[n].fn = "fetchAndCacheData" /\ calls[n].outcome = "returned"
            /\ log[Len(log)].text = "ERROR: "
            /\ ~Logged("File Caching finished"))
    /\ [][pc # "exited"]_vars
    /\ [][pc' = "exited" =>
            \A q \in EarlierArtifacts(index) :
                q \in DOMAIN files /\ q \in DOMAIN files' /\ files'[q] = files[q]]_vars

\* the third dataset fails at its second write after two datasets were
\* cached: its csv is written, its geojson is not, and the run has exited
C6_Witness ==
    /\ pc = "exited"
    /\ exitCode = "1"
    /\ Len(calls) = 3
    /\ calls[3].outcome = "FileSystemError 2"
    /\ CsvArtifact(dataSets[Keys[3]]) \in DOMAIN files
    /\ GeoJsonArtifact(dataSets[Keys[3]]) \notin DOMAIN files
    /\ MinGeoJsonArtifact(dataSets[Keys[2]]) \in DOMAIN files

\* C7: the calls of fetchAndCacheData follow the descriptors as the catalog
\* lists them, one call per listed descriptor, repeated identifiers
\* included.
C7_EveryListedDescriptorInOrder ==
    /\ \A n \in DOMAIN FetchCalls :
        /\ n <= Len(DataSetsListed)
        /\ <<FetchCalls[n].url.gid, FetchCalls[n].dataset>> = DataSetsListed[n]
    /\ pc \in {"checking", "done"} => Len(FetchCalls) = Len(DataSetsListed)

\* C8: when a verifyCleanData call has been made, fetchAndCacheData has
\* returned, with its three writes done, for every dataset of the catalog
\* object, all before the first verifyCleanData call, and 'File Caching
\* finished' is in the log; the n-th verifyCleanData call reads the path
\* and the content that the n-th fetchAndCacheData call wrote as its csv.
C8_VerifyAfterCaching ==
    VerifyCalls # <<>> =>
        /\ Len(FetchCalls) = Len(Keys)
        /\ \A n \in DOMAIN FetchCalls :
            /\ calls[n] = FetchCalls[n]
            /\ FetchCalls[n].dataset = dataSets[Keys[n]]
            /\ FetchCalls[n].outcome = "returned"
            /\ Len(FetchCalls[n].wrote) = 3
        /\ Logged("File Caching finished")
        /\ \A n \in DOMAIN VerifyCalls :
            /\ VerifyCalls[n].outcome = "returned"
            /\ VerifyCalls[n].filename = FetchCalls[n].wrote[1]
            /\ VerifyCalls[n].filename = CsvArtifact(FetchCalls[n].dataset)
            /\ VerifyCalls[n].data = FetchCalls[n].body

\* a completed run: every dataset is verified, and the dataset whose name
\* has two blanks is verified on the '#REF!' body cached for it in this run
C8_Witness ==
    /\ pc = "done"
    /\ Len(VerifyCalls) = Len(Keys)
    /\ \E n \in DOMAIN VerifyCalls :
        /\ FetchCalls[n].dataset = dataSets[396287298]
        /\ VerifyCalls[n].data = RefCsv
        /\ errors[n] = Warning("#REF! found in ", CsvArtifact(dataSets[396287298]))

\* C9: a call of fetchAndCacheData whose request was answered with a
\* status outside 200..299 throws and writes nothing.
C9_HttpErrorRaises ==
    \A n \in DOMAIN FetchCalls :
        (FetchCalls[n].status # 0 /\ FetchCalls[n].status \notin 200..299)
            => FetchCalls[n].outcome # "returned" /\ FetchCalls[n].wrote = <<>>

=============================================================================
